---- MODULE Spec2Model ----
(***************************************************************************)
(* A model of vgutil (vugu/vgutil): the page-tmpl command (fingerprint     *)
(* manifest, lookup functions, template rendering), the slug canonicalizer *)
(* stripSlug, the hash-rename command and the watch command.               *)
(*                                                                         *)
(* Strings are sequences of one-character strings, so that every string    *)
(* function of the program is computed character by character.  A          *)
(* time.Time is an integer: the number of instants after Go's zero time    *)
(* (January 1, year 1 UTC), so ZeroTime is the instant IsZero reports and   *)
(* negative numbers are instants before it.                                *)
(***************************************************************************)
EXTENDS Integers, Sequences, FiniteSets, TLC

VARIABLES
    \* ---- stripSlug applied repeatedly to one input string
    slugIn,        \* the input string
    slugHist,      \* <<stripSlug(in), stripSlug(stripSlug(in)), ...>>
    \* ---- the hash-rename command
    hrPc,          \* "idle", "start", "rename", "done", "panic"
    hashRenameIn,  \* the <in> argument
    hashRenameOut, \* the --out flag ("" when absent)
    hhexval,       \* the hash of the input file's bytes, in hex
    inBaseName,    \* base name of the target path
    outFname,      \* the computed new path
    \* ---- the page-tmpl command: its arguments and the files it meets
    pageTmplFiles,   \* the files arguments, in order
    pageTmplIn,      \* --in ("" when absent)
    pageTmplOut,     \* --out ("" when absent)
    pageTmplTmplOut, \* --tmpl-out ("" when absent)
    pageTmplForce,   \* --force
    fsys,            \* what os.Stat answers for each input file
    inFile,          \* the template document stored at --in
    tmplOutStat,     \* what os.Stat answers for the --tmpl-out path
    tmplOutFile,     \* the file at the --tmpl-out path
    outFile,         \* the file at the --out path
    \* ---- the page-tmpl command: its run
    pc,              \* where main is
    failure,         \* which call ended the run with log.Fatal
    idx,             \* number of files arguments the loop is done with
    fmap,            \* logical key -> fmapEntry
    pageBaseName,
    tmpl,            \* the parsed template
    outBuf,          \* what the executed template wrote
    callLog,         \* the FileName and FileExists calls the template made
    \* ---- the watch command
    watchDirs,       \* the dirs arguments, in order
    watchFails,      \* the positions of the dirs for which notify.Watch fails
    wPc,             \* where main is
    wi,              \* number of dirs the registration loop is done with
    watched,         \* the positions of the dirs whose watch is set up
    c,               \* per dir: the buffer of its channel c
    done,            \* number of values in the buffer of the channel done
    listener,        \* per dir: where its goroutine is
    ei,              \* per dir: the event its goroutine received, 0 for none
    nEvents,         \* number of filesystem events that happened
    eventLog         \* the events logged as "Event: ..."

slugVars == <<slugIn, slugHist>>
renameVars == <<hrPc, hashRenameIn, hashRenameOut, hhexval, inBaseName, outFname>>
pageArgs == <<pageTmplFiles, pageTmplIn, pageTmplOut, pageTmplTmplOut, pageTmplForce,
              fsys, inFile, tmplOutStat>>
pageVars == <<pageArgs, tmplOutFile, outFile, pc, failure, idx, fmap, pageBaseName,
              tmpl, outBuf, callLog>>
watchVars == <<watchDirs, watchFails, wPc, wi, watched, c, done, listener, ei, nEvents,
               eventLog>>

----------------------------------------------------------------------------
(* Bounds of the model *)

\* number of tokens an input string of stripSlug is made of
MaxParts == 5
\* number of times stripSlug is applied in a row
MaxApply == 3
\* number of tokens a hash-rename target's base name is made of
MaxNameParts == 4
\* number of files arguments of page-tmpl
MaxFiles == 2
\* number of dirs arguments of watch
MaxDirs == 3
\* number of filesystem events that happen while watch runs
MaxEvents == 2

----------------------------------------------------------------------------
(* Characters and strings *)

\* the {8} of stripSlugRE
SlugHexLen == 8

\* [_-] of stripSlugRE
SepChars == {"_", "-"}

\* [a-f0-9] of stripSlugRE
HexChars == {"0", "1", "2", "3", "4", "5", "6", "7", "8", "9",
             "a", "b", "c", "d", "e", "f"}

RECURSIVE Concat(_)
\* strings.Join(parts, ""): the parts one after the other, nothing between
Concat(parts) ==
    IF parts = <<>> THEN <<>> ELSE Head(parts) \o Concat(Tail(parts))

\* strings.HasSuffix
HasSuffix(s, suffix) ==
    /\ Len(suffix) <= Len(s)
    /\ SubSeq(s, Len(s) - Len(suffix) + 1, Len(s)) = suffix

\* strings.TrimSuffix
TrimSuffix(s, suffix) ==
    IF HasSuffix(s, suffix) THEN SubSeq(s, 1, Len(s) - Len(suffix)) ELSE s

\* index of the last "/" of s, 0 when there is none
LastSlash(s) ==
    LET at == {i \in 1..Len(s) : s[i] = "/"}
    IN  IF at = {} THEN 0 ELSE CHOOSE i \in at : \A j \in at : j <= i

\* filepath.Split: the directory part (with its final slash) and the file part
Split(path) ==
    LET i == LastSlash(path)
    IN  <<SubSeq(path, 1, i), SubSeq(path, i + 1, Len(path))>>

RECURSIVE TrimSlashes(_)
\* the path without its trailing slashes
TrimSlashes(path) ==
    IF path # <<>> /\ path[Len(path)] = "/"
    THEN TrimSlashes(SubSeq(path, 1, Len(path) - 1))
    ELSE path

\* filepath.Base: the last element of the path; "." for the empty path and "/"
\* for a path of slashes only
Base(path) ==
    IF path = <<>> THEN <<".">>
    ELSE LET p == TrimSlashes(path)
         IN  IF p = <<>> THEN <<"/">>
             ELSE SubSeq(p, LastSlash(p) + 1, Len(p))

\* filepath.Ext: the suffix from the last dot of the last element, "" when the
\* last element has no dot
Ext(path) ==
    LET dots == {i \in (LastSlash(path) + 1)..Len(path) : path[i] = "."}
    IN  IF dots = {} THEN <<>>
        ELSE SubSeq(path, CHOOSE i \in dots : \A j \in dots : j <= i, Len(path))

\* filepath.Join of a directory part as Split returns it (empty, or ending in
\* one slash) and a file name holding no slash
JoinPath(dir, name) ==
    IF dir = <<>> THEN name ELSE TrimSlashes(dir) \o <<"/">> \o name

----------------------------------------------------------------------------
(* stripSlug *)

\* the pattern without its separator class, as if it were .[a-f0-9]{8}[.]
stripSlugRE_anyFirst(s, i) ==
    /\ i + SlugHexLen + 1 <= Len(s)
    /\ \A k \in 1..SlugHexLen : s[i + k] \in HexChars
    /\ s[i + SlugHexLen + 1] = "."

\* stripSlugRE matches s at position i: [_-][a-f0-9]{8}[.]
stripSlugRE(s, i) ==
    /\ i + SlugHexLen + 1 <= Len(s)
    /\ s[i] \in SepChars
    /\ \A k \in 1..SlugHexLen : s[i + k] \in HexChars
    /\ s[i + SlugHexLen + 1] = "."

RECURSIVE ReplaceAllFrom_firstOnly(_, _)
\* the replacement stopping after the first match
ReplaceAllFrom_firstOnly(s, i) ==
    IF i > Len(s) THEN <<>>
    ELSE IF stripSlugRE(s, i)
         THEN <<".">> \o SubSeq(s, i + SlugHexLen + 2, Len(s))
         ELSE <<s[i]>> \o ReplaceAllFrom_firstOnly(s, i + 1)

RECURSIVE ReplaceAllFrom(_, _)
\* ReplaceAllString(in, "."), from position i on: each match, leftmost first
\* and not overlapping the one before, becomes one "."
ReplaceAllFrom(s, i) ==
    IF i > Len(s) THEN <<>>
    ELSE IF stripSlugRE(s, i)
         THEN <<".">> \o ReplaceAllFrom(s, i + SlugHexLen + 2)
         ELSE <<s[i]>> \o ReplaceAllFrom(s, i + 1)

stripSlug(in) == ReplaceAllFrom(in, 1)

----------------------------------------------------------------------------
(* Input strings: up to MaxParts tokens of these *)

Hex8 == <<"c", "a", "f", "e", "1", "2", "3", "4">>
Hex7 == <<"c", "a", "f", "e", "1", "2", "3">>

\* a whole fingerprint segment
SlugSeg == <<"_", "0", "1", "2", "3", "4", "5", "6", "7", ".">>

Tokens == {<<"A">>, <<".">>, <<"-">>, <<"_">>, Hex8, Hex7, SlugSeg}

RECURSIVE TokenSeqs(_)
TokenSeqs(n) ==
    IF n = 0 THEN {<<>>}
    ELSE LET shorter == TokenSeqs(n - 1)
         IN  shorter \cup {<<t>> \o q : t \in Tokens, q \in {r \in shorter : Len(r) = n - 1}}

TokenStrings(n) == {Concat(q) : q \in TokenSeqs(n)}

----------------------------------------------------------------------------
(* stripSlug applied over and over to one string *)

SlugIdle == slugIn = <<>> /\ slugHist = <<>>

\* one more call of stripSlug, on the result of the one before
ApplyStripSlug ==
    /\ Len(slugHist) < MaxApply
    /\ slugHist' = Append(slugHist,
                          stripSlug(IF slugHist = <<>> THEN slugIn
                                    ELSE slugHist[Len(slugHist)]))
    /\ UNCHANGED <<slugIn, renameVars, pageVars, watchVars>>

----------------------------------------------------------------------------
(* The hash-rename command *)

HexDigits == <<"0", "1", "2", "3", "4", "5", "6", "7", "8", "9",
               "a", "b", "c", "d", "e", "f">>

\* fmt.Sprintf("%x", b) of a byte slice: two lower-case hex digits per byte
SprintfHex(b) ==
    Concat([i \in 1..Len(b) |-> <<HexDigits[(b[i] \div 16) + 1], HexDigits[(b[i] % 16) + 1]>>])

\* h.Sum(nil) of the 32-bit FNV-1a hash: four bytes, most significant first.
\* The bytes of the input file are arbitrary, and so is their hash.
HashSums == {<<202, 254, 18, 52>>, <<0, 0, 0, 10>>, <<222, 173, 190, 239>>}

\* the directories a target may lie in
PathPrefixes == {<<>>, <<"A", "/">>}

\* fmt.Sprintf("%s-%s%s", outBaseNoExt, hhexval, outExt) for the target base
\* name inBase: the old slug stripped, the new one put before the extension
NewBaseName(inBase, hex) ==
    LET outNoSlug    == stripSlug(inBase)
        outExt       == Ext(outNoSlug)
        outBaseNoExt == TrimSuffix(Base(outNoSlug), outExt)
    IN  outBaseNoExt \o <<"-">> \o hex \o outExt

RenameIdle ==
    /\ hrPc = "idle"
    /\ hashRenameIn = <<>>
    /\ hashRenameOut = <<>>
    /\ hhexval = <<>>
    /\ inBaseName = <<>>
    /\ outFname = <<>>

\* os.ReadFile(inFname) fails: panic
HashRenameReadFails ==
    /\ hrPc = "start"
    /\ hrPc' = "panic"
    /\ UNCHANGED <<slugVars, pageVars, watchVars, hashRenameIn, hashRenameOut, hhexval, inBaseName, outFname>>

\* the file is read and hashed, and the new name is computed
HashRenameCompute ==
    /\ hrPc = "start"
    /\ \E sum \in HashSums :
         LET hex  == SprintfHex(sum)
             inp  == IF hashRenameOut = <<>> THEN hashRenameIn ELSE hashRenameOut
             pathPrefix == Split(inp)[1]
             base == Split(inp)[2]
         IN  /\ hhexval' = hex
             /\ inBaseName' = base
             /\ outFname' = JoinPath(pathPrefix, NewBaseName(base, hex))
    /\ hrPc' = "rename"
    /\ UNCHANGED <<slugVars, pageVars, watchVars, hashRenameIn, hashRenameOut>>

\* os.Rename(inFname, outFname): done, or panic when it fails
HashRenameRename ==
    /\ hrPc = "rename"
    /\ hrPc' \in {"done", "panic"}
    /\ UNCHANGED <<slugVars, pageVars, watchVars, hashRenameIn, hashRenameOut, hhexval, inBaseName, outFname>>

----------------------------------------------------------------------------
(* The page-tmpl command: files, times, templates *)

\* the time.Time for which IsZero is true
ZeroTime == 0

\* modification times of the input files: one before the zero time, the zero
\* time itself, two after it
Times == {ZeroTime - 1, ZeroTime, ZeroTime + 1, ZeroTime + 2}

\* t.IsZero()
IsZero(t) == t = ZeroTime

\* t.After(u)
After(t, u) == t > u

\* the input files a command line may name
StyleA == <<"s", "t", "y", "l", "e", "-", "d", "e", "a", "d", "b", "e", "e", "f", ".", "c", "s", "s">>
StyleB == <<"p", "u", "b", "/", "s", "t", "y", "l", "e", "_", "c", "a", "f", "e", "1", "2", "3", "4", ".", "c", "s", "s">>
IndexJs == <<"i", "n", "d", "e", "x", "-", "c", "a", "f", "e", "1", "2", "3", "4", ".", "j", "s">>
Paths == {StyleA, StyleB, IndexJs}

\* what os.Stat(fn) returns: st.ModTime() and err
StatOk(t) == [err |-> "nil", modTime |-> t]
StatNotExist == [err |-> "notexist", modTime |-> ZeroTime]
StatOther == [err |-> "other", modTime |-> ZeroTime]
StatResults == {StatOk(t) : t \in Times} \cup {StatNotExist, StatOther}

RECURSIVE FileLists(_)
\* the lists of at most n input files
FileLists(n) ==
    IF n = 0 THEN {<<>>}
    ELSE LET shorter == FileLists(n - 1)
         IN  shorter \cup {Append(q, p) : p \in Paths, q \in {r \in shorter : Len(r) = n - 1}}

Range(q) == {q[i] : i \in DOMAIN q}

\* the template variable $pageName, as an element of a call's arguments
PageNameVar == <<"$pageName">>

\* template nodes: {{FileName parts}} inside a tag; the same inside
\* {{if FileExists cond}}; {{range fn arg}} ... {{else}} ... {{end}}; and a call
\* of FileName with a number for an argument
Emit(tag, parts) == [op |-> "emit", tag |-> tag, parts |-> parts]
IfEmit(cond, tag, parts) == [op |-> "if", cond |-> cond, tag |-> tag, parts |-> parts]
RangeElse(fn, arg, tag, else) == [op |-> "range", fn |-> fn, arg |-> arg, tag |-> tag, else |-> else]
BadCall == [op |-> "badcall"]

\* default-page.tmpl, the document embedded as defaultPageTmpl
defaultPageTmpl ==
    [name |-> "default-page.tmpl",
     nodes |-> << RangeElse("FileNameListForExt", <<".", "c", "s", "s">>, "link",
                            <<IfEmit(<<PageNameVar, <<".", "c", "s", "s">>>>, "link", <<PageNameVar, <<".", "c", "s", "s">>>>)>>),
                  RangeElse("FileNameListForExt", <<".", "j", "s">>, "script",
                            <<Emit("script", <<<<"w", "a", "s", "m", "_", "e", "x", "e", "c", ".", "j", "s">>>>),
                              IfEmit(<<PageNameVar, <<".", "j", "s">>>>, "script", <<PageNameVar, <<".", "j", "s">>>>)>>),
                  Emit("fetch", <<PageNameVar, <<".", "w", "a", "s", "m">>>>) >>]

\* the default document of vgutil-main.go, which that version writes with
\* --tmpl-out: a user's --in document, or an old file at the --tmpl-out path
inlinePageTmpl ==
    [name |-> "inline",
     nodes |-> << IfEmit(<<PageNameVar, <<".", "c", "s", "s">>>>, "link", <<PageNameVar, <<".", "c", "s", "s">>>>),
                  Emit("script", <<<<"w", "a", "s", "m", "_", "e", "x", "e", "c", ".", "j", "s">>>>),
                  IfEmit(<<PageNameVar, <<".", "j", "s">>>>, "script", <<PageNameVar, <<".", "j", "s">>>>),
                  Emit("fetch", <<PageNameVar, <<".", "w", "a", "s", "m">>>>) >>]

\* a user's document that looks the same keys up under several splits
splitPageTmpl ==
    [name |-> "split",
     nodes |-> << Emit("script", <<<<"i", "n", "d", "e", "x">>, <<".", "j", "s">>>>),
                  Emit("script", <<<<"i", "n", "d", "e", "x", ".", "j", "s">>>>),
                  Emit("script", <<<<"i", "n">>, <<"d", "e", "x", ".", "j", "s">>>>),
                  IfEmit(<<<<"s", "t", "y", "l", "e", ".", "c", "s", "s">>>>, "link", <<<<"s", "t", "y", "l", "e">>, <<".", "c", "s", "s">>>>),
                  IfEmit(<<<<"i", "n", "d", "e", "x", "-", "c", "a", "f", "e", "1", "2", "3", "4", ".", "j", "s">>>>, "script", <<<<"i", "n", "d", "e", "x", "-", "c", "a", "f", "e", "1", "2", "3", "4", ".", "j", "s">>>>),
                  Emit("link", <<>>),
                  Emit("link", <<<<"s", "t", "y", "l", "e">>, <<>>, <<".", "c", "s", "s">>>>) >>]

\* a user's document that parses and fails when executed
badArgPageTmpl ==
    [name |-> "badarg", nodes |-> << Emit("script", <<<<"i", "n", "d", "e", "x", ".", "j", "s">>>>), BadCall >>]

\* no document: what a file holds that was created and not written
emptyPageTmpl == [name |-> "", nodes |-> <<>>]

InTemplates == {defaultPageTmpl, inlinePageTmpl, splitPageTmpl, badArgPageTmpl}

\* the --in path
InPath == <<"p", "a", "g", "e", "s", "/", "i", "n", "d", "e", "x", ".", "t", "m", "p", "l">>

\* the names template.FuncMap binds
FuncMap == {"PageBaseName", "FileName", "FileExists"}

RECURSIVE NodeFuncs(_)
\* the functions a node calls
NodeFuncs(n) ==
    CASE n.op = "emit" -> {"FileName"}
      [] n.op = "if" -> {"FileExists", "FileName"}
      [] n.op = "range" -> {n.fn, "FileName"} \cup UNION {NodeFuncs(n.else[i]) : i \in DOMAIN n.else}
      [] OTHER -> {"FileName"}

\* tmpl.Parse: an error when the document calls a function that is not bound
ParseOk(t) == \A i \in DOMAIN t.nodes : NodeFuncs(t.nodes[i]) \subseteq FuncMap

----------------------------------------------------------------------------
(* The page-tmpl command: the manifest and its lookups *)

\* the zero fmapEntry, which fmap[key] is for a key the map does not hold
ZeroEntry == [name |-> <<>>, path |-> <<>>, modTime |-> ZeroTime]

\* fme := fmap[key]
MapGet(m, key) == IF key \in DOMAIN m THEN m[key] ELSE ZeroEntry

\* fmap[key] = fme
MapPut(m, key, fme) ==
    [k \in DOMAIN m \cup {key} |-> IF k = key THEN fme ELSE m[k]]

\* the test with "not before" for "after": an equal time replaces too
Replaces_notOlder(fme, modTime) == IsZero(fme.modTime) \/ ~After(fme.modTime, modTime)

\* if fme.modTime.IsZero() || st.ModTime().After(fme.modTime)
Replaces(fme, modTime) == IsZero(fme.modTime) \/ After(modTime, fme.modTime)

\* the loop body storing the entry under the file's name as it is
Feed_rawKey(m, fn, modTime) ==
    LET name == Base(fn)
        fme  == MapGet(m, name)
    IN  IF Replaces(fme, modTime)
        THEN MapPut(m, name, [name |-> name, path |-> fn, modTime |-> modTime])
        ELSE m

\* one pass of the loop body for an input file that os.Stat found
Feed(m, fn, modTime) ==
    LET name == Base(fn)
        key  == stripSlug(name)
        fme  == MapGet(m, key)
    IN  IF Replaces(fme, modTime)
        THEN MapPut(m, key, [name |-> name, path |-> fn, modTime |-> modTime])
        ELSE m

\* the arguments of a call, $pageName replaced by its value
Subst(parts) ==
    [i \in DOMAIN parts |-> IF parts[i] = PageNameVar THEN pageBaseName ELSE parts[i]]

\* FileName returning the entry's path for its name
FileName_path(parts) ==
    LET key == Concat(parts)
    IN  IF key \in DOMAIN fmap THEN fmap[key].path ELSE <<>>

\* the template function FileName
FileName(parts) ==
    LET key == Concat(parts)
    IN  IF key \in DOMAIN fmap THEN fmap[key].name ELSE <<>>

\* the template function FileExists
FileExists(parts) ==
    LET key == Concat(parts)
    IN  key \in DOMAIN fmap

\* the lookup as an indexing that creates the entry it does not find
AfterLookup_inserts(m, key) == IF key \in DOMAIN m THEN m ELSE MapPut(m, key, ZeroEntry)

\* the map after "fme, ok := fmap[key]" (FileName) or "_, ok := fmap[key]"
\* (FileExists): the two-value index expression reads the map and leaves it as
\* it is, for a key the map does not hold as well
AfterLookup(m, key) == m

RECURSIVE AfterCalls(_, _)
\* the map after a sequence of calls of FileName and FileExists
AfterCalls(m, calls) ==
    IF calls = <<>> THEN m
    ELSE AfterCalls(AfterLookup(m, Concat(Head(calls).parts)), Tail(calls))

\* the records of callLog
CallFileName(parts) == [fn |-> "FileName", parts |-> parts, ret |-> FileName(parts)]
CallFileExists(parts) == [fn |-> "FileExists", parts |-> parts, ret |-> FileExists(parts)]

\* the calls a node makes when executed
NodeCalls(n) ==
    CASE n.op = "emit" -> <<CallFileName(Subst(n.parts))>>
      [] n.op = "if" ->
           <<CallFileExists(Subst(n.cond))>> \o
           (IF FileExists(Subst(n.cond)) THEN <<CallFileName(Subst(n.parts))>> ELSE <<>>)
      [] OTHER -> <<>>

\* what a node writes when executed: the tag and the name put into it
NodeOut(n) ==
    CASE n.op = "emit" -> <<[tag |-> n.tag, url |-> FileName(Subst(n.parts))]>>
      [] n.op = "if" ->
           IF FileExists(Subst(n.cond))
           THEN <<[tag |-> n.tag, url |-> FileName(Subst(n.parts))]>>
           ELSE <<>>
      [] OTHER -> <<>>

\* a call with an argument of the wrong type ends the execution with an error
ExecOk(t) == \A i \in DOMAIN t.nodes : t.nodes[i].op # "badcall"

----------------------------------------------------------------------------
(* The page-tmpl command: its steps *)

PageIdle ==
    /\ pageTmplFiles = <<>>
    /\ pageTmplIn = <<>>
    /\ pageTmplOut = ""
    /\ pageTmplTmplOut = ""
    /\ pageTmplForce = FALSE
    /\ fsys = [p \in Paths |-> StatNotExist]
    /\ inFile = [readable |-> FALSE, data |-> emptyPageTmpl]
    /\ tmplOutStat = "notexist"
    /\ tmplOutFile = [exists |-> FALSE, data |-> emptyPageTmpl]
    /\ outFile = [exists |-> FALSE, data |-> <<>>]
    /\ pc = "idle"
    /\ failure = "none"
    /\ idx = 0
    /\ fmap = <<>>
    /\ pageBaseName = <<>>
    /\ tmpl = emptyPageTmpl
    /\ outBuf = <<>>
    /\ callLog = <<>>

\* the test left out: no error is a not-exist error
IsNotExist_never(err) == FALSE

\* the test taking every error for a not-exist error
IsNotExist_anyError(err) == err # "nil"

\* errors.Is(err, fs.ErrNotExist)
IsNotExist(err) == err = "notexist"

\* log.Fatal: the command ends with exit status 1
Fatal(what) == pc' = "fatal" /\ failure' = what

\* the value of main's err at the test "errors.Is(err, fs.ErrNotExist)": the
\* err that os.Stat set is another variable, declared by := inside the block
\* of "if !*pageTmplForce", so main's own err is still nil
OuterErr(statErr) == "nil"

\* the early return without the test of --force
KeepsExisting_ignoresForce(force, statErr) == statErr = "nil"

\* the early return: --force is absent and os.Stat found the file
KeepsExisting(force, statErr) == ~force /\ statErr = "nil"

\* --tmpl-out is given: stat the path unless --force, return when it exists
TmplOutCheck ==
    /\ pc = "main"
    /\ pageTmplTmplOut # ""
    /\ LET err == OuterErr(IF pageTmplForce THEN "nil" ELSE tmplOutStat)
       IN  IF KeepsExisting(pageTmplForce, tmplOutStat)
           THEN pc' = "done" /\ UNCHANGED failure
           ELSE IF ~IsNotExist(err) /\ err # "nil"
                THEN Fatal("stat-tmpl-out")
                ELSE pc' = "write-tmpl-out" /\ UNCHANGED failure
    /\ UNCHANGED <<slugVars, renameVars, watchVars, pageArgs, tmplOutFile, outFile, idx, fmap,
                   pageBaseName, tmpl, outBuf, callLog>>

\* the branch without its final return: main goes on below the branch
AfterTmplOut_fallsThrough == "loop"

\* where main is after the --tmpl-out branch wrote the file: the return that
\* ends the branch
AfterTmplOut == "done"

\* os.WriteFile(*pageTmplTmplOut, []byte(defaultPageTmpl), 0644)
TmplOutWrite ==
    /\ pc = "write-tmpl-out"
    /\ \/ /\ tmplOutFile' = [exists |-> TRUE, data |-> defaultPageTmpl]
          /\ pc' = AfterTmplOut
          /\ UNCHANGED failure
       \/ /\ tmplOutFile' \in {tmplOutFile, [exists |-> TRUE, data |-> emptyPageTmpl]}
          /\ Fatal("write-tmpl-out")
    /\ UNCHANGED <<slugVars, renameVars, watchVars, pageArgs, outFile, idx, fmap, pageBaseName, tmpl, outBuf, callLog>>

\* --tmpl-out is not given: template.New and the empty fmap
NewFmap ==
    /\ pc = "main"
    /\ pageTmplTmplOut = ""
    /\ pc' = "loop"
    /\ fmap' = <<>>
    /\ UNCHANGED <<slugVars, renameVars, watchVars, pageArgs, tmplOutFile, outFile, failure, idx, pageBaseName, tmpl,
                   outBuf, callLog>>

\* one pass of "for _, fn := range *pageTmplFiles"
StatFile ==
    /\ pc = "loop"
    /\ idx < Len(pageTmplFiles)
    /\ LET fn == pageTmplFiles[idx + 1]
           st == fsys[fn]
       IN  IF st.err # "nil"
           THEN IF IsNotExist(st.err)
                THEN \* the warning, and continue
                     /\ idx' = idx + 1
                     /\ UNCHANGED <<pc, failure, fmap>>
                ELSE /\ Fatal("stat")
                     /\ UNCHANGED <<idx, fmap>>
           ELSE /\ fmap' = Feed(fmap, fn, st.modTime)
                /\ idx' = idx + 1
                /\ UNCHANGED <<pc, failure>>
    /\ UNCHANGED <<slugVars, renameVars, watchVars, pageArgs, tmplOutFile, outFile, pageBaseName,
                   tmpl, outBuf, callLog>>

\* no --in: tmpl.Parse(defaultPageTmpl)
ParseDefault ==
    /\ pc = "loop"
    /\ idx = Len(pageTmplFiles)
    /\ pageTmplIn = <<>>
    /\ IF ParseOk(defaultPageTmpl)
       THEN tmpl' = defaultPageTmpl /\ pc' = "exec" /\ UNCHANGED failure
       ELSE Fatal("parse") /\ UNCHANGED tmpl
    /\ UNCHANGED <<slugVars, renameVars, watchVars, pageArgs, tmplOutFile, outFile, idx, fmap, pageBaseName, outBuf, callLog>>

\* --in: the page name, os.ReadFile and tmpl.Parse
ParseIn ==
    /\ pc = "loop"
    /\ idx = Len(pageTmplFiles)
    /\ pageTmplIn # <<>>
    /\ pageBaseName' = TrimSuffix(Base(pageTmplIn), Ext(pageTmplIn))
    /\ IF ~inFile.readable THEN Fatal("read") /\ UNCHANGED tmpl
       ELSE IF ~ParseOk(inFile.data) THEN Fatal("parse") /\ UNCHANGED tmpl
       ELSE tmpl' = inFile.data /\ pc' = "exec" /\ UNCHANGED failure
    /\ UNCHANGED <<slugVars, renameVars, watchVars, pageArgs, tmplOutFile, outFile, idx, fmap, outBuf, callLog>>

\* tmpl.ExecuteTemplate(&outBuf, "page", data)
Execute ==
    /\ pc = "exec"
    /\ callLog' = Concat([i \in DOMAIN tmpl.nodes |-> NodeCalls(tmpl.nodes[i])])
    /\ fmap' = AfterCalls(fmap, callLog')
    /\ IF ExecOk(tmpl)
       THEN /\ outBuf' = Concat([i \in DOMAIN tmpl.nodes |-> NodeOut(tmpl.nodes[i])])
            /\ pc' = "write"
            /\ UNCHANGED failure
       ELSE Fatal("execute") /\ UNCHANGED outBuf
    /\ UNCHANGED <<slugVars, renameVars, watchVars, pageArgs, tmplOutFile, outFile, idx, pageBaseName, tmpl>>

\* the test of --out and os.WriteFile(*pageTmplOut, outBuf.Bytes(), 0644)
WriteOut ==
    /\ pc = "write"
    /\ IF pageTmplOut = ""
       THEN Fatal("out-required") /\ UNCHANGED outFile
       ELSE \/ /\ outFile' = [exists |-> TRUE, data |-> outBuf]
               /\ pc' = "done"
               /\ UNCHANGED failure
            \/ /\ outFile' \in {outFile, [exists |-> TRUE, data |-> <<>>]}
               /\ Fatal("write")
    /\ UNCHANGED <<slugVars, renameVars, watchVars, pageArgs, tmplOutFile, idx, fmap, pageBaseName, tmpl, outBuf, callLog>>

----------------------------------------------------------------------------
(* The watch command *)

\* make(chan struct{}, 1): the buffer size of done
DoneCap == 1

\* make(chan notify.EventInfo, 1): the buffer size of each c
ChanCap == 1

\* the directories a command line may name, the second one recursively
WatchDirNames == {"src", "static/..."}

RECURSIVE DirLists(_)
\* the lists of at most n dirs arguments
DirLists(n) ==
    IF n = 0 THEN {<<>>}
    ELSE LET shorter == DirLists(n - 1)
         IN  shorter \cup {Append(q, d) : d \in WatchDirNames, q \in {r \in shorter : Len(r) = n - 1}}

WatchIdle ==
    /\ watchDirs = <<>>
    /\ watchFails = {}
    /\ wPc = "idle"
    /\ wi = 0
    /\ watched = {}
    /\ c = <<>>
    /\ done = 0
    /\ listener = <<>>
    /\ ei = <<>>
    /\ nEvents = 0
    /\ eventLog = <<>>

\* the process runs: main has neither returned nor called log.Fatal
Alive == wPc \in {"start", "register", "wait"}

\* notify.Watch answering no error for every directory
WatchErr_nil(i) == "nil"

\* the err of notify.Watch(watchDir, c, notify.All) for the i-th directory
WatchErr(i) == IF i \in watchFails THEN "other" ELSE "nil"

\* the goroutine without its deferred send on done
ListenerNext_noDefer(st) ==
    CASE st = "recv" -> "log"
      [] OTHER -> "end"

\* the goroutine's program order: ei := <-c, log.Printf, the deferred
\* done <- struct{}{}, the end
ListenerNext(st) ==
    CASE st = "recv" -> "log"
      [] st = "log" -> "send"
      [] OTHER -> "end"

\* the receive not blocking: a value comes out of the empty channel too
DoneReady_always(d) == TRUE

\* <-done can proceed: the buffer of done holds a value
DoneReady(d) == d > 0

\* if len(*watchDirs) == 0 { log.Fatal }, and make(chan struct{}, 1)
WatchStart ==
    /\ wPc = "start"
    /\ wPc' = IF Len(watchDirs) = 0 THEN "fatal"
              ELSE "register"
    /\ done' = 0
    /\ UNCHANGED <<slugVars, renameVars, pageVars, watchDirs, watchFails, wi, watched, c,
                   listener, ei, nEvents, eventLog>>

\* one pass of "for _, watchDir := range *watchDirs": the channel, notify.Watch,
\* log.Fatal when it fails, the goroutine started; after the last pass main is
\* at <-done
WatchRegister ==
    /\ wPc = "register"
    /\ wi < Len(watchDirs)
    /\ LET i == wi + 1
       IN  IF WatchErr(i) # "nil"
           THEN /\ wPc' = "fatal"
                /\ UNCHANGED <<wi, watched, listener>>
           ELSE /\ watched' = watched \cup {i}
                /\ listener' = [listener EXCEPT ![i] = "recv"]
                /\ wi' = i
                /\ wPc' = IF i = Len(watchDirs) THEN "wait" ELSE "register"
    /\ UNCHANGED <<slugVars, renameVars, pageVars, watchDirs, watchFails, c, done, ei,
                   nEvents, eventLog>>

\* a filesystem event under the i-th directory: notify sends it on c without
\* blocking, so it is dropped when the buffer of c is full
FsEvent(i) ==
    /\ Alive
    /\ i \in watched
    /\ nEvents < MaxEvents
    /\ nEvents' = nEvents + 1
    /\ c' = [c EXCEPT ![i] = IF Len(@) < ChanCap THEN Append(@, nEvents + 1) ELSE @]
    /\ UNCHANGED <<slugVars, renameVars, pageVars, watchDirs, watchFails, wPc, wi, watched,
                   done, listener, ei, eventLog>>

\* ei := <-c
ListenerRecv(i) ==
    /\ Alive
    /\ i \in DOMAIN listener
    /\ listener[i] = "recv"
    /\ c[i] # <<>>
    /\ ei' = [ei EXCEPT ![i] = Head(c[i])]
    /\ c' = [c EXCEPT ![i] = Tail(@)]
    /\ listener' = [listener EXCEPT ![i] = ListenerNext(@)]
    /\ UNCHANGED <<slugVars, renameVars, pageVars, watchDirs, watchFails, wPc, wi, watched,
                   done, nEvents, eventLog>>

\* log.Printf("Event: %v\n", ei)
ListenerLog(i) ==
    /\ Alive
    /\ i \in DOMAIN listener
    /\ listener[i] = "log"
    /\ eventLog' = Append(eventLog, ei[i])
    /\ listener' = [listener EXCEPT ![i] = ListenerNext(@)]
    /\ UNCHANGED <<slugVars, renameVars, pageVars, watchDirs, watchFails, wPc, wi, watched,
                   c, done, ei, nEvents>>

\* defer func() { done <- struct{}{} }(): blocks while the buffer of done is full
ListenerSend(i) ==
    /\ Alive
    /\ i \in DOMAIN listener
    /\ listener[i] = "send"
    /\ done < DoneCap
    /\ done' = done + 1
    /\ listener' = [listener EXCEPT ![i] = ListenerNext(@)]
    /\ UNCHANGED <<slugVars, renameVars, pageVars, watchDirs, watchFails, wPc, wi, watched,
                   c, ei, nEvents, eventLog>>

\* <-done and return: the deferred notify.Stop of every channel, exit status 0
WatchWait ==
    /\ wPc = "wait"
    /\ DoneReady(done)
    /\ done' = done - 1
    /\ watched' = {}
    /\ wPc' = "exit0"
    /\ UNCHANGED <<slugVars, renameVars, pageVars, watchDirs, watchFails, wi, c, listener,
                   ei, nEvents, eventLog>>

----------------------------------------------------------------------------
(* Specifications *)

vars == <<slugVars, renameVars, pageVars, watchVars>>

\* stripSlug alone
InitSlug ==
    /\ slugIn \in TokenStrings(MaxParts)
    /\ slugHist = <<>>
    /\ RenameIdle
    /\ PageIdle
    /\ WatchIdle

NextSlug == ApplyStripSlug

SpecSlug == InitSlug /\ [][NextSlug]_vars

\* the hash-rename command
InitRename ==
    /\ SlugIdle
    /\ PageIdle
    /\ WatchIdle
    /\ hrPc = "start"
    /\ \E dir \in PathPrefixes, name \in TokenStrings(MaxNameParts) :
         hashRenameIn = dir \o name
    /\ hashRenameOut \in {<<>>, <<"A", "/", "A", ".", "A">>}
    /\ hhexval = <<>>
    /\ inBaseName = <<>>
    /\ outFname = <<>>

NextRename ==
    \/ HashRenameReadFails
    \/ HashRenameCompute
    \/ HashRenameRename

SpecRename == InitRename /\ [][NextRename]_vars

\* the page-tmpl command.  An argument the selected branch never reads is
\* held at one value: --force and the --tmpl-out path without --tmpl-out, the
\* input files' state with it, and files that no argument names.
InitPage ==
    /\ SlugIdle
    /\ RenameIdle
    /\ WatchIdle
    /\ pageTmplFiles \in FileLists(MaxFiles)
    /\ pageTmplTmplOut \in {"", "out.tmpl"}
    /\ fsys \in {f \in [Paths -> StatResults] :
                   \A p \in Paths :
                      (p \notin Range(pageTmplFiles) \/ pageTmplTmplOut # "")
                         => f[p] = StatNotExist}
    /\ pageTmplIn \in {<<>>, InPath}
    /\ inFile \in IF pageTmplIn = <<>>
                  THEN {[readable |-> FALSE, data |-> emptyPageTmpl]}
                  ELSE {[readable |-> FALSE, data |-> emptyPageTmpl]} \cup
                       {[readable |-> TRUE, data |-> t] : t \in InTemplates}
    /\ pageTmplOut \in {"", "index.html"}
    /\ pageTmplForce \in IF pageTmplTmplOut = "" THEN {FALSE} ELSE BOOLEAN
    /\ tmplOutStat \in IF pageTmplTmplOut = "" THEN {"notexist"}
                       ELSE {"nil", "notexist", "other"}
    /\ tmplOutFile \in
         {[exists |-> FALSE, data |-> emptyPageTmpl] : x \in {1} \cap {y \in {1} : tmplOutStat # "nil"}}
         \cup
         {[exists |-> TRUE, data |-> inlinePageTmpl] : x \in {1} \cap {y \in {1} : tmplOutStat # "notexist"}}
    /\ outFile = [exists |-> FALSE, data |-> <<>>]
    /\ pc = "main"
    /\ failure = "none"
    /\ idx = 0
    /\ fmap = <<>>
    /\ pageBaseName = <<"i", "n", "d", "e", "x">>
    /\ tmpl = emptyPageTmpl
    /\ outBuf = <<>>
    /\ callLog = <<>>

NextPage ==
    \/ TmplOutCheck
    \/ TmplOutWrite
    \/ NewFmap
    \/ StatFile
    \/ ParseDefault
    \/ ParseIn
    \/ Execute
    \/ WriteOut

SpecPage == InitPage /\ [][NextPage]_vars

\* the watch command
InitWatch ==
    /\ SlugIdle
    /\ RenameIdle
    /\ PageIdle
    /\ watchDirs \in DirLists(MaxDirs)
    /\ watchFails \in SUBSET (1..Len(watchDirs))
    /\ wPc = "start"
    /\ wi = 0
    /\ watched = {}
    /\ c = [i \in 1..Len(watchDirs) |-> <<>>]
    /\ done = 0
    /\ listener = [i \in 1..Len(watchDirs) |-> "none"]
    /\ ei = [i \in 1..Len(watchDirs) |-> 0]
    /\ nEvents = 0
    /\ eventLog = <<>>

NextWatch ==
    \/ WatchStart
    \/ WatchRegister
    \/ \E i \in 1..Len(watchDirs) : FsEvent(i)
    \/ \E i \in 1..Len(watchDirs) : ListenerRecv(i)
    \/ \E i \in 1..Len(watchDirs) : ListenerLog(i)
    \/ \E i \in 1..Len(watchDirs) : ListenerSend(i)
    \/ WatchWait

SpecWatch == InitWatch /\ [][NextWatch]_vars

\* the watch command with the scheduler's fairness: a goroutine that can run
\* is run in the end, main as well as every listener
SpecWatchFair ==
    /\ SpecWatch
    /\ WF_vars(WatchRegister)
    /\ WF_vars(WatchWait)
    /\ \A i \in 1..MaxDirs :
          WF_vars(ListenerRecv(i)) /\ WF_vars(ListenerLog(i)) /\ WF_vars(ListenerSend(i))

----------------------------------------------------------------------------
(* The claims about the manifest build (SpecPage) *)

\* the positions of the files arguments, and what the loop has seen of them
Pos == 1..Len(pageTmplFiles)
StatAt(i) == fsys[pageTmplFiles[i]]
Exists(i) == StatAt(i).err = "nil"
NameAt(i) == Base(pageTmplFiles[i])
KeyAt(i) == stripSlug(NameAt(i))

\* the loop has run over every files argument
BuildFinished ==
    /\ pageTmplTmplOut = ""
    /\ pc \notin {"idle", "main"}
    /\ idx = Len(pageTmplFiles)

\* i and j are the only existing candidates for their common logical key
OnlyTwo(i, j) ==
    /\ i # j
    /\ Exists(i) /\ Exists(j)
    /\ KeyAt(i) = KeyAt(j)
    /\ NameAt(i) # NameAt(j)
    /\ \A k \in Pos \ {i, j} : Exists(k) => KeyAt(k) # KeyAt(i)

\* C1: of two existing candidates for one logical key whose modification
\* times differ, fed in either order among candidates for other keys and
\* missing files, the finished manifest holds the base name of the later one.
C1_NewestWins ==
    BuildFinished =>
       \A i, j \in Pos :
          (OnlyTwo(i, j) /\ StatAt(i).modTime < StatAt(j).modTime)
             => /\ KeyAt(j) \in DOMAIN fmap
                /\ fmap[KeyAt(j)].name = NameAt(j)

\* the largest of a non-empty set of times
MaxOf(ts) == CHOOSE t \in ts : \A u \in ts : u <= t

\* the modification times of the existing candidates for key among the first
\* n files arguments
TimesFed(key, n) ==
    {StatAt(i).modTime : i \in {k \in 1..n : Exists(k) /\ KeyAt(k) = key}}

\* C2: after every feed step the manifest holds, under each logical key it
\* has (a map: one entry a key), an entry whose modification time is the
\* latest of the modification times of the existing candidates for that key
\* fed so far.
C2_EntryIsLatest ==
    (pageTmplTmplOut = "" /\ pc \notin {"idle", "main"}) =>
       \A key \in DOMAIN fmap :
          /\ TimesFed(key, idx) # {}
          /\ fmap[key].modTime = MaxOf(TimesFed(key, idx))

\* C3 as stated: of two existing candidates for one logical key with equal
\* modification times, the finished manifest holds the one fed last.
C3_TieLastWins ==
    BuildFinished =>
       \A i, j \in Pos :
          (OnlyTwo(i, j) /\ i < j /\ StatAt(i).modTime = StatAt(j).modTime)
             => fmap[KeyAt(j)].name = NameAt(j)

\* C3, amended: of two existing candidates for one logical key with equal
\* modification times, the finished manifest holds the one fed first; it holds
\* the one fed last only when that modification time is the zero time.
C3_TieFirstWins ==
    BuildFinished =>
       \A i, j \in Pos :
          (OnlyTwo(i, j) /\ i < j /\ StatAt(i).modTime = StatAt(j).modTime)
             => /\ KeyAt(i) \in DOMAIN fmap
                /\ fmap[KeyAt(i)].name =
                      IF StatAt(i).modTime = ZeroTime THEN NameAt(j) ELSE NameAt(i)

C3_Witness ==
    /\ BuildFinished
    /\ \E i, j \in Pos :
          /\ OnlyTwo(i, j) /\ i < j
          /\ StatAt(i).modTime = StatAt(j).modTime
          /\ StatAt(i).modTime # ZeroTime
          /\ fmap[KeyAt(i)].name = NameAt(i)

RECURSIVE FeedAll(_, _)
\* the manifest built from a list of files that all exist
FeedAll(m, list) ==
    IF list = <<>> THEN m
    ELSE FeedAll(Feed(m, Head(list), fsys[Head(list)].modTime), Tail(list))

\* a list without the paths for which os.Stat answers not-exist
WithoutMissing(list) == SelectSeq(list, LAMBDA p : fsys[p].err # "notexist")

\* C4: a path for which stat reports not-exist is skipped and does not fail
\* the invocation: at every point of the loop the manifest is the one built
\* from the arguments done so far with the missing paths removed, and the loop
\* ends with log.Fatal only at a path whose stat error is another one.
C4_MissingSkipped ==
    (pageTmplTmplOut = "" /\ pc \notin {"idle", "main"}) =>
       /\ fmap = FeedAll(<<>>, WithoutMissing(SubSeq(pageTmplFiles, 1, idx)))
       /\ failure = "stat" => StatAt(idx + 1).err = "other"

C4_Witness ==
    /\ BuildFinished
    /\ \E i, j \in Pos : i < j /\ StatAt(i).err = "notexist" /\ Exists(j)
    /\ fmap # <<>>
    /\ pc = "done"

\* the first files argument whose stat fails with another error than not-exist
FirstOther == CHOOSE i \in Pos : StatAt(i).err = "other" /\ \A k \in 1..(i - 1) : StatAt(k).err # "other"

\* C5: when stat of a candidate fails with another error than not-exist, the
\* command ends there with exit status 1: no later candidate is processed,
\* no template is parsed or executed, and the --out file is not written.
C5_StatErrorAborts ==
    (pageTmplTmplOut = "" /\ pc \notin {"idle", "main"} /\ \E i \in Pos : StatAt(i).err = "other") =>
       /\ idx < FirstOther
       /\ pc \in {"loop", "fatal"}
       /\ pc = "fatal" => (failure = "stat" /\ idx = FirstOther - 1)
       /\ tmpl = emptyPageTmpl /\ outBuf = <<>> /\ callLog = <<>>
       /\ ~outFile.exists

C5_Witness ==
    /\ pc = "fatal" /\ failure = "stat"
    /\ idx >= 1
    /\ fmap # <<>>

----------------------------------------------------------------------------
(* The claims about the lookups and the rendering (SpecPage) *)

RECURSIVE Joined(_)
\* the key parts one after the other, written from the last part back
Joined(parts) ==
    IF parts = <<>> THEN <<>>
    ELSE Joined(SubSeq(parts, 1, Len(parts) - 1)) \o parts[Len(parts)]

\* C6: every call the template made of FileName or FileExists, with K its
\* key parts one after the other: FileExists returned whether the manifest
\* has an entry under K, FileName returned that entry's base name, or the
\* empty string when there is none; two calls whose parts give the same K
\* returned the same.
C6_LookupConsistent ==
    /\ \A n \in DOMAIN callLog :
          LET call == callLog[n]
              K == Joined(call.parts)
          IN  /\ call.fn = "FileName" =>
                    call.ret = IF K \in DOMAIN fmap THEN fmap[K].name ELSE <<>>
              /\ call.fn = "FileExists" => call.ret = (K \in DOMAIN fmap)
    /\ \A n, m \in DOMAIN callLog :
          (callLog[n].fn = callLog[m].fn /\ Joined(callLog[n].parts) = Joined(callLog[m].parts))
             => callLog[n].ret = callLog[m].ret

C6_Witness ==
    /\ \E n, m \in DOMAIN callLog :
          /\ callLog[n].fn = "FileName" /\ callLog[m].fn = "FileName"
          /\ callLog[n].parts # callLog[m].parts
          /\ Joined(callLog[n].parts) = Joined(callLog[m].parts)
          /\ callLog[n].ret # <<>>
          /\ callLog[n].ret # fmap[Joined(callLog[n].parts)].path
    /\ \E n \in DOMAIN callLog : callLog[n].fn = "FileName" /\ callLog[n].ret = <<>>
    /\ \E n \in DOMAIN callLog : callLog[n].fn = "FileExists" /\ callLog[n].ret = FALSE

\* C9: with no --in and the manifest built from the existing files
\* style-deadbeef.css and index-cafe1234.js, the default document is rendered:
\* the command does not end in a template error, the page name is "index",
\* and the output holds a stylesheet link to style-deadbeef.css and a script
\* tag for index-cafe1234.js.
C9_DefaultRender ==
    ( /\ pageTmplTmplOut = ""
      /\ pageTmplIn = <<>>
      /\ pageTmplFiles = <<StyleA, IndexJs>>
      /\ Exists(1) /\ Exists(2)
      /\ pc \in {"done", "fatal"} ) =>
       /\ failure \notin {"parse", "execute"}
       /\ pageBaseName = <<"i", "n", "d", "e", "x">>
       /\ \E n \in DOMAIN outBuf : outBuf[n] = [tag |-> "link", url |-> StyleA]
       /\ \E n \in DOMAIN outBuf : outBuf[n] = [tag |-> "script", url |-> IndexJs]

\* the file that os.Stat found at the --tmpl-out path before the command ran
ExistingTmplOut == [exists |-> TRUE, data |-> inlinePageTmpl]

\* C10: with --tmpl-out, when the file exists and --force is absent the
\* command ends with exit status 0 and the file as it was; when --force is
\* given or the file does not exist the command goes on to write it, ends with
\* exit status 0 only with the file holding the default document as it is,
\* and ends otherwise only because that write failed.
C10_TmplOutKeepsExisting ==
    (pageTmplTmplOut # "" /\ pc # "main") =>
       /\ (~pageTmplForce /\ tmplOutStat = "nil") =>
             /\ pc = "done"
             /\ failure = "none"
             /\ tmplOutFile = ExistingTmplOut
       /\ (pageTmplForce \/ tmplOutStat = "notexist") =>
             /\ pc \in {"write-tmpl-out", "done", "fatal"}
             /\ pc = "done" => tmplOutFile = [exists |-> TRUE, data |-> defaultPageTmpl]
             /\ pc = "fatal" => failure = "write-tmpl-out"

C10_Witness ==
    /\ pageTmplTmplOut # ""
    /\ ~pageTmplForce /\ tmplOutStat = "nil"
    /\ pc = "done"
    /\ tmplOutFile = ExistingTmplOut

\* C15: a feed of a candidate whose logical key has an entry replaces the
\* entry only if the entry's modification time is strictly before the
\* candidate's, and otherwise leaves the whole manifest as it is; and a feed
\* changes no entry of another key.
C15_ReplaceOnlyIfOlder ==
    [][ (pc = "loop" /\ idx' = idx + 1 /\ Exists(idx + 1)) =>
           LET key == KeyAt(idx + 1)
               t   == StatAt(idx + 1).modTime
           IN  /\ (key \in DOMAIN fmap /\ fmap' # fmap) => fmap[key].modTime < t
               /\ DOMAIN fmap' \subseteq DOMAIN fmap \cup {key}
               /\ \A k \in DOMAIN fmap \ {key} : k \in DOMAIN fmap' /\ fmap'[k] = fmap[k]
      ]_vars

\* the manifest as it is at the end of construction: the loop run over all
\* the files arguments
Built == FeedAll(<<>>, WithoutMissing(pageTmplFiles))

\* the template has been executed
Executed ==
    /\ pageTmplTmplOut = ""
    /\ \/ pc \in {"write", "done"}
       \/ pc = "fatal" /\ failure \in {"execute", "out-required", "write"}

\* C14: after the template's calls of FileName and FileExists, for keys the
\* manifest has and keys it has not, the manifest has the keys and the entries
\* it had at the end of construction, and what each call returned is what the
\* manifest of the end of construction answers for its key, whichever calls
\* came before it.
C14_LookupsPure ==
    Executed =>
       /\ fmap = Built
       /\ \A n \in DOMAIN callLog :
             LET K == Joined(callLog[n].parts)
             IN  callLog[n].ret =
                    IF callLog[n].fn = "FileExists" THEN K \in DOMAIN Built
                    ELSE IF K \in DOMAIN Built THEN Built[K].name ELSE <<>>

C14_Witness ==
    /\ Executed
    /\ pc = "done"
    /\ fmap # <<>>
    /\ \E n \in DOMAIN callLog : callLog[n].fn = "FileExists" /\ callLog[n].ret = FALSE
    /\ \E n \in DOMAIN callLog : callLog[n].fn = "FileName" /\ callLog[n].ret = <<>>
    /\ \E n, m \in DOMAIN callLog :
          /\ n < m
          /\ callLog[n].fn = "FileName" /\ callLog[m].fn = "FileName"
          /\ callLog[n].ret # <<>> /\ callLog[m].ret = callLog[n].ret

\* the keys a template may look up: those of the manifest, the names of the
\* input files with and without their fingerprint, and the empty key
LookupKeys ==
    DOMAIN fmap \cup {Base(p) : p \in Paths} \cup {stripSlug(Base(p)) : p \in Paths} \cup {<<>>}

\* C20: in every state of the manifest, the entry under each key K has a name
\* that is not empty, is the last segment of the entry's path and is
\* canonicalized to K by stripSlug; and for every key FileExists is true
\* exactly when FileName is not the empty string.
C20_EntryWellFormed ==
    /\ \A K \in DOMAIN fmap :
          /\ fmap[K].name # <<>>
          /\ fmap[K].name = Split(fmap[K].path)[2]
          /\ stripSlug(fmap[K].name) = K
    /\ \A K \in LookupKeys : FileExists(<<K>>) <=> (FileName(<<K>>) # <<>>)

C20_Witness ==
    /\ BuildFinished
    /\ Cardinality(DOMAIN fmap) >= 2
    /\ \E K \in DOMAIN fmap : fmap[K].name # K /\ fmap[K].name # fmap[K].path
    /\ \E K \in LookupKeys : ~FileExists(<<K>>)

----------------------------------------------------------------------------
(* The claims about --tmpl-out (SpecPage) *)

\* C11: when --tmpl-out is given, whatever --in, --out and files arguments
\* come with it, main is only ever in the --tmpl-out branch: no input file is
\* stat-ed (the loop is not entered), no manifest is built, no template is
\* parsed or executed, and the --out file is never written.
C11_TmplOutOnly ==
    pageTmplTmplOut # "" =>
       /\ pc \in {"main", "write-tmpl-out", "done", "fatal"}
       /\ failure \in {"none", "stat-tmpl-out", "write-tmpl-out"}
       /\ idx = 0
       /\ fmap = <<>>
       /\ tmpl = emptyPageTmpl
       /\ outBuf = <<>>
       /\ callLog = <<>>
       /\ outFile = [exists |-> FALSE, data |-> <<>>]

C11_Witness ==
    /\ pageTmplTmplOut # ""
    /\ pageTmplFiles # <<>>
    /\ pageTmplIn # <<>> /\ inFile.readable
    /\ pageTmplOut # ""
    /\ pc = "done"
    /\ tmplOutFile = [exists |-> TRUE, data |-> defaultPageTmpl]

\* C16: with --tmpl-out and no --force, when stat of the path fails with
\* another error than not-exist, the command ends with exit status 1 on that
\* error and the path is not written.
C16_TmplOutStatErrorFatal ==
    (pageTmplTmplOut # "" /\ ~pageTmplForce /\ tmplOutStat = "other" /\ pc # "main") =>
       /\ pc = "fatal"
       /\ failure = "stat-tmpl-out"

----------------------------------------------------------------------------
(* The claims about stripSlug (SpecSlug) and hash-rename (SpecRename) *)

\* a fingerprint segment at position i of x: one of - and _, eight of
\* 0-9a-f, a dot
SlugAt(x, i) ==
    /\ i >= 1
    /\ i + 9 <= Len(x)
    /\ x[i] \in {"-", "_"}
    /\ \A k \in (i + 1)..(i + 8) :
          x[k] \in {"0", "1", "2", "3", "4", "5", "6", "7", "8", "9", "a", "b", "c", "d", "e", "f"}
    /\ x[i + 9] = "."

\* x holds a fingerprint segment right after one of - and _ and eight of
\* 0-9a-f, which with the dot that replaces the segment is a segment again
Stacked(x) ==
    \E i \in 10..Len(x) :
       /\ SlugAt(x, i)
       /\ SlugAt(SubSeq(x, i - 9, i - 1) \o <<".">>, 1)

\* C7 as stated: stripSlug(stripSlug(x)) = stripSlug(x) for every string x.
C7_Idempotent ==
    Len(slugHist) >= 2 => slugHist[2] = slugHist[1]

\* C7, amended: stripSlug(stripSlug(x)) = stripSlug(x) for every string x in
\* which no fingerprint segment comes right after a separator and eight hex
\* characters.
C7_IdempotentUnstacked ==
    (Len(slugHist) >= 2 /\ ~Stacked(slugIn)) => slugHist[2] = slugHist[1]

C7_Witness ==
    /\ Len(slugHist) >= 2
    /\ ~Stacked(slugIn)
    /\ slugHist[1] # slugIn
    /\ slugHist[2] = slugHist[1]

RECURSIVE Occurrences(_, _)
\* the starts of the fingerprint segments of x found scanning left to right
\* from position from on, each one looked for behind the end of the one before
Occurrences(x, from) ==
    LET starts == {i \in from..Len(x) : SlugAt(x, i)}
    IN  IF starts = {} THEN {}
        ELSE LET first == CHOOSE i \in starts : \A j \in starts : i <= j
             IN  {first} \cup Occurrences(x, first + 10)

\* x with each of these segments replaced by one dot and nothing else changed
RefSubst(x) ==
    LET occ == Occurrences(x, 1)
    IN  Concat([p \in 1..Len(x) |->
                  IF p \in occ THEN <<".">>
                  ELSE IF \E i \in occ : i < p /\ p <= i + 9 THEN <<>>
                  ELSE <<x[p]>>])

\* C19: stripSlug(x) is x with every non-overlapping occurrence, scanning left
\* to right, of one of - and _, exactly eight of 0-9a-f and a dot replaced by
\* one dot, and nothing else changed; x with no such occurrence is returned
\* unchanged.
C19_ReferenceSubstitution ==
    Len(slugHist) >= 1 =>
       /\ slugHist[1] = RefSubst(slugIn)
       /\ Len(slugHist[1]) = Len(slugIn) - 9 * Cardinality(Occurrences(slugIn, 1))
       /\ Occurrences(slugIn, 1) = {} => slugHist[1] = slugIn

C19_Witness ==
    /\ Len(slugHist) >= 1
    /\ Cardinality(Occurrences(slugIn, 1)) >= 2
    /\ slugHist[1] # slugIn
    /\ \E p \in 1..Len(slugHist[1]) : slugHist[1][p] \in {"-", "_"}

\* C8: for a logical name L (a base name that holds no fingerprint) and the
\* hash H of the file, the base name hash-rename makes of L and H is
\* canonicalized back to L.
C8_RoundTrip ==
    ( /\ hrPc \in {"rename", "done"}
      /\ inBaseName # <<>>
      /\ stripSlug(inBaseName) = inBaseName ) =>
       stripSlug(Split(outFname)[2]) = inBaseName

----------------------------------------------------------------------------
(* The claims about the watch command (SpecWatch, SpecWatchFair) *)

\* the listener of the i-th directory has been delivered an event: the event
\* is in its channel, or the goroutine has received it
Delivered(i) == c[i] # <<>> \/ ei[i] # 0

\* C12: once every directory is registered (main is at <-done), an event
\* delivered to the listener of any directory leads to the command's return with
\* exit status 0, for any number of directories and of listeners that fire.
C12_WatchLiveness ==
    (wPc = "wait" /\ \E i \in DOMAIN c : Delivered(i)) ~> (wPc = "exit0")

C12_Witness ==
    /\ wPc = "exit0"
    /\ Len(watchDirs) >= 2
    /\ \A i \in DOMAIN c : Delivered(i)

\* C13: in one run of watch at most one event is logged as "Event: ...".
C13_SingleEvent == Len(eventLog) <= 1

\* C17: the command returns with exit status 0 only after a listener has
\* received an event from its channel and finished; with no event main stays
\* at <-done, and the watches are stopped only by main's return.
C17_NoExitWithoutEvent ==
    /\ wPc = "exit0" =>
          /\ nEvents > 0
          /\ \E i \in DOMAIN listener : ei[i] # 0 /\ listener[i] = "end"
    /\ wPc = "wait" => watched = 1..Len(watchDirs)

C17_Witness ==
    /\ wPc = "exit0"
    /\ Len(watchDirs) >= 2
    /\ \E i \in DOMAIN listener : listener[i] = "recv"
    /\ \E i \in DOMAIN listener : ei[i] # 0 /\ listener[i] = "end"

\* C18: the directories are registered one at a time in argument order, main
\* is at <-done only with all of them registered, and a run in which a
\* registration fails ends with exit status 1, never 0, also when a listener
\* of an earlier directory has received an event by then.
C18_RegistrationFailureFatal ==
    /\ wPc \in {"register", "wait"} => watched = 1..wi
    /\ wPc = "wait" => wi = Len(watchDirs)
    /\ wPc = "exit0" => watchFails = {}
    /\ (watchFails # {} /\ wPc \notin {"start", "register"}) => wPc = "fatal"

C18_Witness ==
    /\ wPc = "fatal"
    /\ watchFails # {}
    /\ \E i \in DOMAIN listener : ei[i] # 0 /\ listener[i] = "end"
    /\ done = 1

====
